---- MODULE Spec2Model ----
(***************************************************************************)
(* Model of the Game Asset Exporter add-on (src/export.py): the two export *)
(* operators, the vertex deduplication, the skin-weight normalisation, the *)
(* skeleton and animation writers and the fixed-width primitive writers.   *)
(*                                                                         *)
(* Abstractions.  Floating-point attributes that the exporter only copies  *)
(* (positions, normals, matrices, pose channels) are symbolic values.      *)
(* Skin weights and frame-range ends, on which the exporter computes, are  *)
(* exact rationals <<numerator, denominator>> in lowest terms.  Names are  *)
(* sequences of code points (action names) or integers (bone and vertex    *)
(* group names).  Python's 0-based indices are kept; a Python list l is a  *)
(* TLA+ sequence and l[i] is written l[i + 1].                             *)
(***************************************************************************)
EXTENDS Integers, Sequences, FiniteSets, TLC

VARIABLES
    selected_objects,   \* bpy.context.selected_objects
    actions,            \* bpy.data.actions
    pose_position,      \* armature.data.pose_position
    frame_current,      \* bpy.context.scene.frame_current
    action,             \* armature.animation_data.action: 0 (None) or 1-based position in actions
    pc,                 \* position inside the running operator, "idle" between operators
    op,                 \* the operator last started: "none", "mesh" or "skeleton"
    armature,           \* local: 0, or the 1-based position of the armature in selected_objects
    originalArmaturePosition, originalAnimation, originalFrame,  \* locals
    file,               \* the file object of the running operator
    animIdx,            \* number of actions already written by the loop of line 252
    result,             \* "none", "FINISHED" or "EXCEPTION"
    entry,              \* history: session state when the operator was entered
    readModes           \* history: pose modes under which the operator read evaluated data

vars == <<selected_objects, actions, pose_position, frame_current, action,
          pc, op, armature, originalArmaturePosition, originalAnimation, originalFrame,
          file, animIdx, result, entry, readModes>>

scene == <<selected_objects, actions>>
locals == <<armature, originalArmaturePosition, originalAnimation, originalFrame,
            file, animIdx>>

-----------------------------------------------------------------------------
(* Program constants *)

fileWriteMode == "wb"

\* Largest values struct.pack accepts for the formats "B" and "H".
Uint8Max == 255
Uint16Max == 65535

\* Number of joint bindings kept per vertex.
JointSlots == 4

-----------------------------------------------------------------------------
(* Bounds of the model *)

MaxBones == 3       \* bones of a generated armature
MaxObjects == 2     \* selected mesh objects
MaxActions == 2     \* actions in bpy.data.actions
MaxGroups == 5      \* vertex groups of one vertex in the weight family

-----------------------------------------------------------------------------
(* Exact rationals *)

Abs(n) == IF n < 0 THEN -n ELSE n

RECURSIVE GCD(_, _)
GCD(a, b) == IF b = 0 THEN a ELSE GCD(b, a % b)

Rat(n, d) ==
    IF n = 0 THEN <<0, 1>>
    ELSE LET g == GCD(Abs(n), Abs(d))
             s == IF d < 0 THEN -1 ELSE 1
         IN <<(s * n) \div g, (s * d) \div g>>

RatZero == <<0, 1>>
RatOne == <<1, 1>>
RatAdd(a, b) == Rat(a[1] * b[2] + b[1] * a[2], a[2] * b[2])
RatDiv(a, b) == Rat(a[1] * b[2], a[2] * b[1])

RECURSIVE RatSum(_)
RatSum(s) == IF s = <<>> THEN RatZero ELSE RatAdd(Head(s), RatSum(Tail(s)))

\* Python's int() of a float: truncation toward zero.
PyInt(r) == IF r[1] >= 0 THEN r[1] \div r[2] ELSE -((-r[1]) \div r[2])

-----------------------------------------------------------------------------
(* Vertex: structural equality, hash on position.x only *)

Vertex(position, uv, normal, jointIndices, jointWeights) ==
    [position |-> position, uv |-> uv, normal |-> normal,
     jointIndices |-> jointIndices, jointWeights |-> jointWeights]

VertexEq(a, b) ==
    /\ a.position = b.position
    /\ a.uv = b.uv
    /\ a.normal = b.normal
    /\ a.jointIndices = b.jointIndices
    /\ a.jointWeights = b.jointWeights

VertexHash(v) == v.position.x

\* The dict "vertices" of getDataFromMeshObjects: entries in insertion order.
dictFind(d, v) ==
    {k \in 1..Len(d) : VertexHash(d[k].key) = VertexHash(v) /\ VertexEq(d[k].key, v)}

dictHas(d, v) == dictFind(d, v) # {}

dictGet(d, v) == d[CHOOSE k \in dictFind(d, v) : TRUE].value

dictKeys(d) == [k \in 1..Len(d) |-> d[k].key]

-----------------------------------------------------------------------------
(* normalizeJointWeights *)

\* Variant without the division.
normalizeJointWeightsNoDivide(weights) == weights

normalizeJointWeights(weights) ==
    LET totalWeights == RatSum(weights)
    IN [i \in 1..Len(weights) |->
           IF totalWeights[1] # 0 THEN RatDiv(weights[i], totalWeights) ELSE RatZero]

-----------------------------------------------------------------------------
(* bpy_prop_collection.find on the bones of an armature: index or -1 *)

bonesFind(bones, name) ==
    IF \E k \in 1..Len(bones) : bones[k].name = name
    THEN (CHOOSE k \in 1..Len(bones) :
              bones[k].name = name /\ \A j \in 1..(k - 1) : bones[j].name # name) - 1
    ELSE -1

-----------------------------------------------------------------------------
(* The file object.  data is the sequence of fields handed to file.write,  *)
(* each <<format, value>>; raised tells that a statement has raised, after *)
(* which the remaining statements of the operator are skipped.             *)

NoFile == [data |-> <<>>, raised |-> FALSE, opened |-> FALSE]

emit(s, format, value) == [s EXCEPT !.data = Append(@, <<format, value>>)]
raise(s) == [s EXCEPT !.raised = TRUE]

\* struct.pack("I", value); the upper limit 2^32 - 1 is beyond every value of the model.
writeUint32(s, value) ==
    IF s.raised THEN s
    ELSE IF fileWriteMode = "wb"
         THEN IF value >= 0 THEN emit(s, "I", value) ELSE raise(s)
         ELSE emit(s, "text", value)

writeUint16(s, value) ==
    IF s.raised THEN s
    ELSE IF fileWriteMode = "wb"
         THEN IF value \in 0..Uint16Max THEN emit(s, "H", value) ELSE raise(s)
         ELSE emit(s, "text", value)

writeUint8(s, value) ==
    IF s.raised THEN s
    ELSE IF fileWriteMode = "wb"
         THEN IF value \in 0..Uint8Max THEN emit(s, "B", value) ELSE raise(s)
         ELSE emit(s, "text", value)

writeFloat(s, value) ==
    IF s.raised THEN s
    ELSE IF fileWriteMode = "wb" THEN emit(s, "f", value) ELSE emit(s, "text", value)

writeBool(s, value) ==
    IF s.raised THEN s
    ELSE IF fileWriteMode = "wb" THEN emit(s, "?", value) ELSE emit(s, "text", value)

\* text.encode('ascii') raises UnicodeEncodeError on a code point above 127.
writeString(s, text) ==
    IF s.raised THEN s
    ELSE IF fileWriteMode = "wb"
         THEN IF \A i \in 1..Len(text) : text[i] <= 127 THEN emit(s, "s", text) ELSE raise(s)
         ELSE emit(s, "text", text)

-----------------------------------------------------------------------------
(* A Python for loop over items in order: the body is applied to the state  *)
(* s and each item in turn, and the loop stops at a raise.  A body may      *)
(* append to s.data and never reads it.  The items are split at the         *)
(* midpoint, the left half runs first and the right half starts from the    *)
(* state the left half ends in; what the right half appended is put after   *)
(* what was there when the left half ended.                                 *)

RECURSIVE ForEach(_, _, _, _, _)
ForEach(Body(_, _), items, lo, hi, s) ==
    IF s.raised \/ lo > hi THEN s
    ELSE IF lo = hi THEN Body(s, items[lo])
    ELSE LET mid == (lo + hi) \div 2
             left == ForEach(Body, items, lo, mid, s)
         IN IF left.raised THEN left
            ELSE LET right == ForEach(Body, items, mid + 1, hi, [left EXCEPT !.data = <<>>])
                 IN [right EXCEPT !.data = left.data \o right.data]

Loop(Body(_, _), items, s) ==
    LET count == Len(items)
    IN ForEach(Body, items, 1, count, s)

range(n) == [i \in 1..n |-> i - 1]

-----------------------------------------------------------------------------
(* writeVertices, writeFaces *)

writeVertex(s, vertex, writeJointBindings) ==
    LET s1 == writeFloat(s, vertex.position.x)
        s2 == writeFloat(s1, vertex.position.y)
        s3 == writeFloat(s2, vertex.position.z)
        s4 == writeFloat(s3, vertex.uv[1])
        s5 == writeFloat(s4, vertex.uv[2])
        s6 == writeFloat(s5, vertex.normal.x)
        s7 == writeFloat(s6, vertex.normal.y)
        s8 == writeFloat(s7, vertex.normal.z)
        WriteIndex(t, i) == writeUint8(t, vertex.jointIndices[i + 1])
        WriteWeight(t, i) == writeFloat(t, vertex.jointWeights[i + 1])
    IN IF writeJointBindings
       THEN Loop(WriteWeight, range(JointSlots), Loop(WriteIndex, range(JointSlots), s8))
       ELSE s8

writeVertices(s, vs, writeJointBindings) ==
    LET Body(t, vertex) == writeVertex(t, vertex, writeJointBindings)
    IN Loop(Body, vs, s)

writeFaces(s, fs) ==
    LET WriteIndex(t, vertexIndex) == writeUint16(t, vertexIndex)
        Body(t, face) == Loop(WriteIndex, face.vertexIndices, t)
    IN Loop(Body, fs, s)

-----------------------------------------------------------------------------
(* Scene queries *)

getSelectedMeshObjects(objects) == SelectSeq(objects, LAMBDA object : object.type = "MESH")

\* The armature is returned as its 1-based position in the selection; 0 as in the source.
getSelectedArmature(objects) ==
    IF \E k \in 1..Len(objects) : objects[k].type = "ARMATURE"
    THEN CHOOSE k \in 1..Len(objects) :
             objects[k].type = "ARMATURE" /\ \A j \in 1..(k - 1) : objects[j].type # "ARMATURE"
    ELSE 0

-----------------------------------------------------------------------------
(* getDataFromMeshObjects *)

Face(vertexIndices) == [vertexIndices |-> vertexIndices]

\* Blender's collections are arrays: a list is held as a tuple, indexed in constant time.
list(s) == SubSeq(s, 1, Len(s))

\* Line 97: the evaluated copy of the object's mesh, modifiers applied.  An Array
\* modifier of count n (merging the copies' vertices) repeats the polygons and their
\* loops n times over the vertices of the datablock.
to_mesh(object) ==
    LET data == object.data
        loopCount == Len(data.loops)
        polygonCount == Len(data.polygons)
        origin(j) == ((j - 1) % loopCount) + 1
        shifted(i) == LET polygon == data.polygons[((i - 1) % polygonCount) + 1]
                          offset == ((i - 1) \div polygonCount) * loopCount
                      IN [k \in 1..Len(polygon.loop_indices) |->
                              polygon.loop_indices[k] + offset]
    IN [vertices |-> list(data.vertices),
        loops |-> list([j \in 1..(object.array * loopCount) |-> data.loops[origin(j)]]),
        uv |-> list([j \in 1..(object.array * loopCount) |-> data.uv[origin(j)]]),
        polygons |-> list([i \in 1..(object.array * polygonCount) |->
                               [loop_indices |-> list(shifted(i))]])]

\* Lines 107-123: the Vertex of one triangle corner.
bakeCorner(object, mesh, bones, hasArmature, loopIndex) ==
    LET loop == mesh.loops[loopIndex + 1]
        meshVertex == mesh.vertices[loop.vertex_index + 1]
        position == meshVertex.undeformed_co
        uv0 == mesh.uv[loopIndex + 1]
        uv == <<uv0[1], 1 - uv0[2]>>
        normal == loop.normal
        groups == meshVertex.groups
        bound(i) == hasArmature /\ i <= Len(groups)
        jointIndices == [i \in 1..JointSlots |->
            IF bound(i)
            THEN bonesFind(bones, object.vertex_groups[groups[i].group + 1].name)
            ELSE 0]
        jointWeights == [i \in 1..JointSlots |->
            IF bound(i) THEN groups[i].weight ELSE RatZero]
    IN Vertex(position, uv, normal, jointIndices, normalizeJointWeights(jointWeights))

\* Variant of lines 124-126 without the lookup of line 124: every corner is new.
internAlwaysNew(t, vertex) ==
    [t EXCEPT !.dict = Append(@, [key |-> vertex, value |-> Len(@)]),
              !.data = Append(@, Len(t.dict))]

\* Variant of lines 124-126 that numbers the vertices from 1.
internOneBased(t, vertex) ==
    LET d == IF dictHas(t.dict, vertex)
             THEN t.dict
             ELSE Append(t.dict, [key |-> vertex, value |-> Len(t.dict) + 1])
    IN [t EXCEPT !.dict = d, !.data = Append(@, dictGet(d, vertex))]

\* Lines 124-126.

intern(t, vertex) ==
    LET d == IF dictHas(t.dict, vertex)
             THEN t.dict
             ELSE Append(t.dict, [key |-> vertex, value |-> Len(t.dict)])
    IN [t EXCEPT !.dict = d, !.data = Append(@, dictGet(d, vertex))]

\* The loop states carry the dict "vertices" as dict and the list being appended to
\* (faceIndices in the loop over a polygon's corners, faces in the outer loops) as data.

\* Lines 106-126: the loop over the corners loop_indices[i..] of one polygon.
RECURSIVE forLoopIndex(_, _, _, _, _, _, _)
forLoopIndex(object, mesh, bones, hasArmature, loop_indices, i, u) ==
    IF i > Len(loop_indices) THEN u
    ELSE forLoopIndex(object, mesh, bones, hasArmature, loop_indices, i + 1,
                      intern(u, bakeCorner(object, mesh, bones, hasArmature,
                                           loop_indices[i])))

\* Lines 104-127: one polygon.
bakePolygon(object, mesh, bones, hasArmature, polygon, t) ==
    IF Len(polygon.loop_indices) = 3
    THEN LET corners == forLoopIndex(object, mesh, bones, hasArmature,
                                     polygon.loop_indices, 1,
                                     [dict |-> t.dict, data |-> <<>>])
         IN [t EXCEPT !.dict = corners.dict, !.data = Append(@, Face(corners.data))]
    ELSE t

\* Line 103: the loop over the polygons lo..hi of one object, in order (split at the
\* midpoint as ForEach is).
RECURSIVE forPolygon(_, _, _, _, _, _, _)
forPolygon(object, mesh, bones, hasArmature, lo, hi, t) ==
    IF lo > hi THEN t
    ELSE IF lo = hi THEN bakePolygon(object, mesh, bones, hasArmature, mesh.polygons[lo], t)
    ELSE LET mid == (lo + hi) \div 2
             left == forPolygon(object, mesh, bones, hasArmature, lo, mid, t)
         IN IF Len(left.dict) >= 0
            THEN LET right == forPolygon(object, mesh, bones, hasArmature, mid + 1, hi,
                                         [left EXCEPT !.data = <<>>])
                 IN [right EXCEPT !.data = left.data \o right.data]
            ELSE left

\* Line 95: the loop over the objects i.. of the selection.
RECURSIVE forObject(_, _, _, _, _)
forObject(objects, bones, hasArmature, i, s) ==
    IF i > Len(objects) THEN s
    ELSE LET object == objects[i]
             mesh == to_mesh(object)
             count == Len(mesh.polygons)
             next == forPolygon(object, mesh, bones, hasArmature, 1, count, s)
         IN forObject(objects, bones, hasArmature, i + 1, next)

getDataFromMeshObjects(objects, bones, hasArmature) ==
    LET all == forObject(objects, bones, hasArmature, 1, [dict |-> <<>>, data |-> <<>>])
    IN [vertices |-> dictKeys(all.dict), faces |-> all.data]

-----------------------------------------------------------------------------
(* writeJoints, writeAnimation *)

\* Variant of line 138 that looks up the bone itself.
parentIndexOwn(bones, bone) == bonesFind(bones, bone.name)

\* Line 138.

parentIndex(bones, bone) == IF bone.parent # 0 THEN bonesFind(bones, bone.parent) ELSE 0

writeJoints(s, bones) ==
    LET Body(t, bone) ==
            LET PerRow(u, r) ==
                    LET PerFloat(v, c) ==
                            writeFloat(v, <<"inverseModelSpacePose", bone.name, r, c>>)
                    IN Loop(PerFloat, range(4), u)
            IN Loop(PerRow, range(4), writeUint8(t, parentIndex(bones, bone)))
    IN Loop(Body, bones, s)

PoseChannels == <<"translation.x", "translation.y", "translation.z",
                  "rotation.w", "rotation.x", "rotation.y", "rotation.z",
                  "scale.x", "scale.y", "scale.z">>

\* Variant of line 150 that counts the range as half open.
frameCountNoPlusOne(startFrame, endFrame) == endFrame - startFrame

\* Line 150.

frameCount(startFrame, endFrame) == endFrame - startFrame + 1

\* s carries the file and the session state the function mutates:
\* [data, raised, action, frame_current, reads].
writeAnimation(s, bones, mode, animations, animation) ==
    LET startFrame == PyInt(animations[animation].frame_range[1])
        endFrame == PyInt(animations[animation].frame_range[2])
        s1 == [s EXCEPT !.action = animation]
        s2 == writeUint32(s1, frameCount(startFrame, endFrame))
        s3 == writeUint32(s2, Len(animations[animation].name))
        s4 == writeString(s3, animations[animation].name)
        frames == [i \in 1..(endFrame + 1 - startFrame) |-> startFrame + i - 1]
        PerFrame(t, frame) ==
            LET PerBone(u, bone) ==
                    LET PerChannel(v, channel) ==
                            writeFloat(v, <<mode, animation, frame, bone.name, channel>>)
                    IN Loop(PerChannel, PoseChannels, [u EXCEPT !.reads = @ \cup {mode}])
            IN Loop(PerBone, bones, [t EXCEPT !.frame_current = frame])
    IN Loop(PerFrame, frames, s4)

-----------------------------------------------------------------------------
(* Scenes: what the collaborator hands to the exporter *)

Co(x, y, z) == [x |-> x, y |-> y, z |-> z]
MeshVertex(co, groups) == [undeformed_co |-> co, groups |-> groups]
MeshLoop(vertex_index, normal) == [vertex_index |-> vertex_index, normal |-> normal]
Polygon(loop_indices) == [loop_indices |-> loop_indices]
Group(group, weight) == [group |-> group, weight |-> weight]
\* A mesh object: its mesh datablock, the count of its Array modifier (1: no modifier)
\* and its vertex groups.
MeshObject(meshVertices, loops, uv, polygons, groupNames) ==
    [type |-> "MESH",
     data |-> [vertices |-> meshVertices, loops |-> loops, uv |-> uv, polygons |-> polygons],
     array |-> 1,
     vertex_groups |-> [i \in 1..Len(groupNames) |-> [name |-> groupNames[i]]]]

Up == Co(0, 0, 1)
Side == Co(1, 0, 0)

\* A planar quad, triangulated into two triangles that share an edge; no vertex groups.
QuadMesh ==
    MeshObject(
        <<MeshVertex(Co(0, 0, 0), <<>>), MeshVertex(Co(1, 0, 0), <<>>),
          MeshVertex(Co(1, 1, 0), <<>>), MeshVertex(Co(0, 1, 0), <<>>)>>,
        <<MeshLoop(0, Up), MeshLoop(1, Up), MeshLoop(2, Up),
          MeshLoop(0, Up), MeshLoop(2, Up), MeshLoop(3, Up)>>,
        <<<<0, 0>>, <<1, 0>>, <<1, 1>>, <<0, 0>>, <<1, 1>>, <<0, 1>>>>,
        <<Polygon(<<0, 1, 2>>), Polygon(<<3, 4, 5>>)>>,
        <<>>)

\* Two triangles over the same three vertices, the second with another normal at its
\* second corner; vertex groups named after bones 1 and 2.
SeamMesh ==
    MeshObject(
        <<MeshVertex(Co(0, 0, 0), <<Group(0, <<1, 2>>), Group(1, <<1, 2>>)>>),
          MeshVertex(Co(1, 0, 0), <<Group(0, <<1, 4>>)>>),
          MeshVertex(Co(0, 1, 0), <<>>)>>,
        <<MeshLoop(0, Up), MeshLoop(1, Up), MeshLoop(2, Up),
          MeshLoop(0, Up), MeshLoop(1, Side), MeshLoop(2, Up)>>,
        <<<<0, 0>>, <<1, 0>>, <<0, 1>>, <<0, 0>>, <<1, 0>>, <<0, 1>>>>,
        <<Polygon(<<0, 1, 2>>), Polygon(<<3, 4, 5>>)>>,
        <<1, 2>>)

\* One triangle whose first vertex is in a vertex group that is named after no bone
\* (bones are named 1, 2, ...).
UnboundMesh ==
    MeshObject(
        <<MeshVertex(Co(2, 0, 0), <<Group(0, <<1, 1>>)>>),
          MeshVertex(Co(3, 0, 0), <<>>),
          MeshVertex(Co(2, 1, 0), <<>>)>>,
        <<MeshLoop(0, Up), MeshLoop(1, Up), MeshLoop(2, Up)>>,
        <<<<0, 0>>, <<1, 0>>, <<0, 1>>>>,
        <<Polygon(<<0, 1, 2>>)>>,
        <<0>>)

MeshPresets == {QuadMesh, SeamMesh, UnboundMesh}

\* One triangle whose first vertex is in Len(ws) vertex groups with the weights ws.
WeightMesh(ws) ==
    MeshObject(
        <<MeshVertex(Co(0, 0, 0), [i \in 1..Len(ws) |-> Group(i - 1, ws[i])]),
          MeshVertex(Co(1, 0, 0), <<>>),
          MeshVertex(Co(0, 1, 0), <<>>)>>,
        <<MeshLoop(0, Up), MeshLoop(1, Up), MeshLoop(2, Up)>>,
        <<<<0, 0>>, <<1, 0>>, <<0, 1>>>>,
        <<Polygon(<<0, 1, 2>>)>>,
        [i \in 1..Len(ws) |-> i])

Weights == {RatZero, <<1, 4>>, RatOne}

SeqsUpTo(S, n) == UNION {[1..k -> S] : k \in 0..n}

\* One triangle under an Array modifier of count n with merged vertices: the evaluated
\* mesh has n triangles over the same three vertices.
RepeatedMesh(n) ==
    [MeshObject(
        <<MeshVertex(Co(0, 0, 0), <<>>), MeshVertex(Co(1, 0, 0), <<>>),
          MeshVertex(Co(0, 1, 0), <<>>)>>,
        <<MeshLoop(0, Up), MeshLoop(1, Up), MeshLoop(2, Up)>>,
        <<<<0, 0>>, <<1, 0>>, <<0, 1>>>>,
        <<Polygon(<<0, 1, 2>>)>>,
        <<>>) EXCEPT !.array = n]

\* Armatures.  Bone i is named i; parent is the parent's name, 0 for a root.  The
\* collaborator enumerates bones depth first, so a bone's parent is the previous bone
\* or one of its ancestors.
RECURSIVE AncestorsOrSelf(_, _)
AncestorsOrSelf(parents, j) ==
    IF j = 0 THEN {} ELSE {j} \cup AncestorsOrSelf(parents, parents[j])

DepthFirst(parents) ==
    /\ \A i \in 1..Len(parents) : parents[i] < i
    /\ \A i \in 1..Len(parents) :
           parents[i] = 0 \/ parents[i] \in AncestorsOrSelf(parents, i - 1)

ArmatureObject(parents) ==
    [type |-> "ARMATURE",
     bones |-> [i \in 1..Len(parents) |-> [name |-> i, parent |-> parents[i]]]]

Armatures ==
    UNION {{ArmatureObject(parents) : parents \in {q \in [1..n -> 0..n] : DepthFirst(q)}} :
           n \in 1..MaxBones}

ChainArmature(n) == ArmatureObject([i \in 1..n |-> i - 1])
FlatArmature(n) == ArmatureObject([i \in 1..n |-> 0])

ArmatureOptions == {<<>>} \cup {<<a>> : a \in Armatures}

\* Actions: name (code points) and frame_range (two rationals).
Walk == [name |-> <<87, 97, 108, 107>>, frame_range |-> <<<<1, 1>>, <<2, 1>>>>]
Idle == [name |-> <<73>>, frame_range |-> <<<<-1, 2>>, <<3, 2>>>>]
Cafe == [name |-> <<67, 233>>, frame_range |-> <<<<4, 1>>, <<4, 1>>>>]
ActionPresets == {Walk, Idle, Cafe}

Injective(q) == \A i, j \in 1..Len(q) : q[i] = q[j] => i = j
ActionLists == {q \in SeqsUpTo(ActionPresets, MaxActions) : Injective(q)}

Scene(objects, animations) == [selected_objects |-> objects, actions |-> animations]

Scenes ==
    {Scene(ms \o arm, <<>>) : ms \in SeqsUpTo(MeshPresets, MaxObjects), arm \in ArmatureOptions}
    \cup {Scene(arm, al) : arm \in ArmatureOptions, al \in ActionLists}
    \cup {Scene(<<m>> \o arm, <<a>>) :
              m \in MeshPresets, arm \in ArmatureOptions, a \in ActionPresets}
    \cup {Scene(<<WeightMesh(ws), ChainArmature(MaxGroups)>>, <<>>) :
              ws \in SeqsUpTo(Weights, MaxGroups)}

CapacityScenes ==
    {Scene(<<RepeatedMesh(Uint16Max + 1)>>, <<>>),
     Scene(<<QuadMesh, FlatArmature(Uint8Max)>>, <<Walk>>),
     Scene(<<QuadMesh, FlatArmature(Uint8Max + 1)>>, <<Walk>>),
     Scene(<<FlatArmature(Uint8Max + 1)>>, <<Cafe, Idle>>)}

InitFrames == {0, 2}

-----------------------------------------------------------------------------
(* State machine *)


Session == [pose_position |-> pose_position, frame_current |-> frame_current,
            action |-> action]

bonesOf(arm) == IF arm = 0 THEN <<>> ELSE selected_objects[arm].bones

\* The locals vertices and faces of ExportMeshOperator.execute (line 222) are a function
\* of the selection and of the armature found at line 212.
baked == getDataFromMeshObjects(getSelectedMeshObjects(selected_objects),
                                bonesOf(armature), armature # 0)
vertices == baked.vertices
faces == baked.faces

InitWith(scenes, frames) ==
    /\ \E sc \in scenes :
        /\ selected_objects = sc.selected_objects
        /\ actions = sc.actions
        /\ IF getSelectedArmature(sc.selected_objects) # 0
           THEN /\ pose_position \in {"REST", "POSE"}
                /\ action \in 0..Len(sc.actions)
           ELSE /\ pose_position = "POSE"
                /\ action = 0
    /\ frame_current \in frames
    /\ pc = "idle"
    /\ op = "none"
    /\ armature = 0
    /\ originalArmaturePosition = "REST"
    /\ originalAnimation = 0
    /\ originalFrame = 0
    /\ file = NoFile
    /\ animIdx = 0
    /\ result = "none"
    /\ entry = Session
    /\ readModes = {}

Init == InitWith(Scenes, InitFrames)

InitCapacity == InitWith(CapacityScenes, {0})

\* An exception leaves the operator: nothing after the raising statement runs.
Raised ==
    /\ pc' = "idle"
    /\ result' = "EXCEPTION"

\* Variant of lines 194-197 that leaves the pose mode as it is.
setArmaturePositionKeep(position) ==
    /\ pose_position' = pose_position
    /\ frame_current' = frame_current

\* Lines 194-197; frame_set(frame_current) leaves the frame where it is.
setArmaturePosition(position) ==
    /\ pose_position' = position
    /\ frame_current' = frame_current

\* open(path, "wb"): the file is created empty, or IOError is raised.
openFile(next) ==
    \E ok \in BOOLEAN :
        IF ok
        THEN /\ file' = [data |-> <<>>, raised |-> FALSE, opened |-> TRUE]
             /\ pc' = next
             /\ result' = result
        ELSE /\ file' = file
             /\ Raised

\* ExportMeshOperator.execute, lines 212-218.
ExportMeshBegin ==
    /\ pc = "idle"
    /\ op' = "mesh"
    /\ entry' = Session
    /\ readModes' = {}
    /\ result' = "none"
    /\ armature' = getSelectedArmature(selected_objects)
    /\ IF armature' # 0
       THEN /\ originalArmaturePosition' = pose_position
            /\ setArmaturePosition("REST")
       ELSE /\ originalArmaturePosition' = "REST"
            /\ UNCHANGED <<pose_position, frame_current>>
    /\ pc' = "mesh_objects"
    /\ originalAnimation' = 0
    /\ originalFrame' = 0
    /\ file' = NoFile
    /\ animIdx' = 0
    /\ UNCHANGED <<scene, action>>

\* Lines 220-222: the mesh data is read here, under the current pose mode; its value is
\* baked.
ExportMeshGetData ==
    /\ pc = "mesh_objects"
    /\ LET objects == getSelectedMeshObjects(selected_objects)
       IN IF Len(objects) > 0
          THEN /\ readModes' = readModes \cup {pose_position}
               /\ pc' = "mesh_open"
          ELSE /\ pc' = "mesh_restore"
               /\ UNCHANGED readModes
    /\ UNCHANGED <<scene, pose_position, frame_current, action, op, armature,
                   originalArmaturePosition, originalAnimation, originalFrame,
                   file, animIdx, result, entry>>

\* Line 223.
ExportMeshOpen ==
    /\ pc = "mesh_open"
    /\ openFile("mesh_write")
    /\ UNCHANGED <<scene, pose_position, frame_current, action, op, armature,
                   originalArmaturePosition, originalAnimation, originalFrame,
                   animIdx, entry, readModes>>

\* Lines 224-228, on the vertices and faces of line 222.
ExportMeshWrite ==
    /\ pc = "mesh_write"
    /\ LET data == baked
           f1 == writeBool(file, armature # 0)
           f2 == writeUint16(f1, Len(data.faces))
           f3 == writeUint16(f2, Len(data.vertices))
           f4 == writeFaces(f3, data.faces)
           f5 == writeVertices(f4, data.vertices, armature # 0)
       IN /\ file' = f5
          /\ IF f5.raised THEN Raised ELSE pc' = "mesh_restore" /\ result' = result
    /\ UNCHANGED <<scene, pose_position, frame_current, action, op, armature,
                   originalArmaturePosition, originalAnimation, originalFrame,
                   animIdx, entry, readModes>>

\* Lines 231-234.
ExportMeshRestore ==
    /\ pc = "mesh_restore"
    /\ IF armature # 0
       THEN setArmaturePosition(originalArmaturePosition)
       ELSE UNCHANGED <<pose_position, frame_current>>
    /\ result' = "FINISHED"
    /\ pc' = "idle"
    /\ UNCHANGED <<scene, action, op, locals, entry, readModes>>

\* ExportSkeletonOperator.execute, lines 241-246.  With no armature selected,
\* getSelectedArmature returns 0 and line 242 raises AttributeError.
ExportSkeletonBegin ==
    /\ pc = "idle"
    /\ op' = "skeleton"
    /\ entry' = Session
    /\ readModes' = {}
    /\ armature' = getSelectedArmature(selected_objects)
    /\ IF armature' # 0
       THEN /\ originalArmaturePosition' = pose_position
            /\ originalAnimation' = action
            /\ originalFrame' = frame_current
            /\ setArmaturePosition("POSE")
            /\ pc' = "skel_open"
            /\ result' = "none"
       ELSE /\ originalArmaturePosition' = "REST"
            /\ originalAnimation' = 0
            /\ originalFrame' = 0
            /\ UNCHANGED <<pose_position, frame_current>>
            /\ Raised
    /\ file' = NoFile
    /\ animIdx' = 0
    /\ UNCHANGED <<scene, action>>

\* Line 247.
ExportSkeletonOpen ==
    /\ pc = "skel_open"
    /\ openFile("skel_joints")
    /\ UNCHANGED <<scene, pose_position, frame_current, action, op, armature,
                   originalArmaturePosition, originalAnimation, originalFrame,
                   animIdx, entry, readModes>>

\* Lines 248-251.
ExportSkeletonWriteJoints ==
    /\ pc = "skel_joints"
    /\ LET bones == bonesOf(armature)
           f1 == writeUint8(file, Len(bones))
           f2 == writeJoints(f1, bones)
           f3 == writeUint32(f2, Len(actions))
       IN /\ file' = f3
          /\ IF f3.raised THEN Raised ELSE pc' = "skel_actions" /\ result' = result
    /\ UNCHANGED <<scene, pose_position, frame_current, action, op, armature,
                   originalArmaturePosition, originalAnimation, originalFrame,
                   animIdx, entry, readModes>>

\* Lines 252-253: one iteration of the loop over bpy.data.actions.
ExportSkeletonWriteAnimation ==
    /\ pc = "skel_actions"
    /\ animIdx < Len(actions)
    /\ LET s == [data |-> file.data, raised |-> file.raised, action |-> action,
                 frame_current |-> frame_current, reads |-> readModes]
           t == writeAnimation(s, bonesOf(armature), pose_position, actions, animIdx + 1)
       IN /\ file' = [file EXCEPT !.data = t.data, !.raised = t.raised]
          /\ action' = t.action
          /\ frame_current' = t.frame_current
          /\ readModes' = t.reads
          /\ IF t.raised
             THEN animIdx' = animIdx /\ Raised
             ELSE animIdx' = animIdx + 1 /\ pc' = pc /\ result' = result
    /\ UNCHANGED <<scene, pose_position, op, armature,
                   originalArmaturePosition, originalAnimation, originalFrame,
                   entry>>

\* Lines 255-258.
ExportSkeletonRestore ==
    /\ pc = "skel_actions"
    /\ animIdx = Len(actions)
    /\ pose_position' = originalArmaturePosition
    /\ frame_current' = originalFrame
    /\ action' = originalAnimation
    /\ result' = "FINISHED"
    /\ pc' = "idle"
    /\ UNCHANGED <<scene, op, locals, entry, readModes>>

Next ==
    \/ ExportMeshBegin
    \/ ExportMeshGetData
    \/ ExportMeshOpen
    \/ ExportMeshWrite
    \/ ExportMeshRestore
    \/ ExportSkeletonBegin
    \/ ExportSkeletonOpen
    \/ ExportSkeletonWriteJoints
    \/ ExportSkeletonWriteAnimation
    \/ ExportSkeletonRestore

Spec == Init /\ [][Next]_vars

SpecCapacity == InitCapacity /\ [][Next]_vars

-----------------------------------------------------------------------------
(* Vocabulary of the properties *)

RECURSIVE Flatten(_)
Flatten(seqs) == IF Len(seqs) = 0 THEN <<>> ELSE Head(seqs) \o Flatten(Tail(seqs))

RatMul(a, b) == Rat(a[1] * b[1], a[2] * b[2])

meshObjects == getSelectedMeshObjects(selected_objects)
hasArmature == armature # 0

\* The triangles of an object's evaluated mesh, in order.
triangles(object) ==
    SelectSeq(to_mesh(object).polygons, LAMBDA polygon : Len(polygon.loop_indices) = 3)

\* The triangle corners of the selection in traversal order, each <<object, loopIndex>>.
cornerList ==
    Flatten([o \in 1..Len(meshObjects) |->
        Flatten([p \in 1..Len(triangles(meshObjects[o])) |->
            [c \in 1..3 |-> <<meshObjects[o], triangles(meshObjects[o])[p].loop_indices[c]>>]])])

\* The mesh vertex a corner comes from, and the weights of its first JointSlots groups.
sourceVertex(corner) ==
    LET mesh == to_mesh(corner[1])
    IN mesh.vertices[mesh.loops[corner[2] + 1].vertex_index + 1]

rawWeights(corner) ==
    LET groups == sourceVertex(corner).groups
    IN [i \in 1..JointSlots |->
           IF hasArmature /\ i <= Len(groups) THEN groups[i].weight ELSE RatZero]

\* The Vertex of each corner.
cornerStream ==
    LET corners == cornerList
    IN [k \in 1..Len(corners) |->
           bakeCorner(corners[k][1], to_mesh(corners[k][1]), bonesOf(armature), hasArmature,
                      corners[k][2])]

\* A vertex group among the first JointSlots of some corner is named after no bone.
HasUnmatchedGroup ==
    LET corners == cornerList
    IN \E k \in 1..Len(corners) :
           LET groups == sourceVertex(corners[k]).groups
           IN \E i \in 1..JointSlots :
                  /\ i <= Len(groups)
                  /\ bonesFind(bonesOf(armature),
                               corners[k][1].vertex_groups[groups[i].group + 1].name) = -1

\* The mesh operator has written its whole file.
MeshFileComplete ==
    /\ op = "mesh"
    /\ pc \in {"mesh_restore", "idle"}
    /\ file.opened
    /\ ~file.raised

\* The skeleton operator has written the header and the bone records.
JointsWritten ==
    /\ op = "skeleton"
    /\ pc \in {"skel_actions", "idle"}
    /\ file.opened
    /\ Len(file.data) > 17 * Len(bonesOf(armature))

\* Position in the skeleton file of the bone record of bone b (0-based): one uint8 and
\* sixteen floats per bone after the bone count.
jointStart(b) == 17 * b + 2

\* Position of the first field of the k-th animation block: the blocks follow the
\* animation count, each three header fields and ten floats per frame and bone.
RECURSIVE animationStart(_, _, _)
animationStart(data, boneCount, k) ==
    IF k = 1 THEN 17 * boneCount + 3
    ELSE LET previous == animationStart(data, boneCount, k - 1)
         IN previous + 3 + 10 * boneCount * data[previous][2]

-----------------------------------------------------------------------------
(* Properties *)

\* C1: when an export operator has exited, on any path, the session state (pose mode,
\* current frame, active action) equals the state at its entry.
C1_SessionRestoredOnEveryExit ==
    (pc = "idle" /\ op # "none") => Session = entry

\* C2: when the face count or the vertex count exceeds 65535 (mesh export) or the bone
\* count exceeds 255 (skeleton export), the export fails and nothing has been written to
\* the output file.
C2_OverflowBeforeAnyByte ==
    (/\ pc = "idle"
     /\ file.opened
     /\ \/ op = "skeleton" /\ Len(bonesOf(armature)) > Uint8Max
        \/ op = "mesh" /\ LET data == baked
                          IN Len(data.faces) > Uint16Max \/ Len(data.vertices) > Uint16Max)
    => (result = "EXCEPTION" /\ file.data = <<>>)

\* C3: a corner whose Vertex equals an earlier corner's gets that corner's index and adds
\* no entry; a corner with a new Vertex gets the number of distinct vertices seen before
\* it; the vertex written k-th is the one with index k.
C3_DedupFirstAppearance ==
    pc = "mesh_write" =>
        LET data == baked
            corners == cornerStream
            indices == Flatten([i \in 1..Len(data.faces) |-> data.faces[i].vertexIndices])
            earlier(k) == {j \in 1..(k - 1) : corners[j] = corners[k]}
        IN /\ Len(indices) = Len(corners)
           /\ \A k \in 1..Len(corners) :
                  IF earlier(k) # {}
                  THEN \A j \in earlier(k) : indices[k] = indices[j]
                  ELSE indices[k] = Cardinality({corners[j] : j \in 1..(k - 1)})
           /\ Len(data.vertices) = Cardinality({corners[k] : k \in 1..Len(corners)})
           /\ \A k \in 1..Len(corners) : data.vertices[indices[k] + 1] = corners[k]

\* A selection of two mesh objects has been baked; some corner repeats an earlier one
\* and a later corner is new.
C3_Witness ==
    /\ pc = "mesh_write"
    /\ Len(meshObjects) = 2
    /\ LET corners == cornerStream
       IN \E j, k, m \in 1..Len(corners) :
              /\ j < k /\ k < m
              /\ corners[j] = corners[k]
              /\ \A i \in 1..(m - 1) : corners[i] # corners[m]

\* C4: in a complete mesh file the number of indices is three times the face count of
\* the header, every index is below the vertex count of the header, and the vertex
\* count is the number of vertex records.
C4_IndexBufferMatchesHeader ==
    MeshFileComplete =>
        LET data == file.data
            faceCount == data[2][2]
            vertexCount == data[3][2]
            recordSize == IF data[1][2] THEN 16 ELSE 8
        IN /\ data[1][1] = "?" /\ data[2][1] = "H" /\ data[3][1] = "H"
           /\ Cardinality({k \in 4..Len(data) : data[k][1] = "H"}) = 3 * faceCount
           /\ \A k \in 4..(3 + 3 * faceCount) : data[k][1] = "H" /\ data[k][2] < vertexCount
           /\ Len(data) = 3 + 3 * faceCount + recordSize * vertexCount

\* A mesh file with at least two faces and four vertices has been written.
C4_Witness ==
    /\ MeshFileComplete
    /\ result = "FINISHED"
    /\ file.data[2][2] >= 2
    /\ file.data[3][2] >= 4

\* C5: the weights of a baked vertex are all zero when the bound weights sum to zero and
\* otherwise each bound weight divided by the sum, so they sum to 0 or to 1; a vertex in
\* no group, exported with an armature, has all weights zero and all joint indices 0.
C5_WeightsNormalized ==
    pc = "mesh_write" =>
        /\ LET corners == cornerList
               stream == cornerStream
           IN \A k \in 1..Len(corners) :
                  LET raw == rawWeights(corners[k])
                      total == RatSum(raw)
                      vertex == stream[k]
                      weights == vertex.jointWeights
                  IN /\ total = RatZero => \A i \in 1..JointSlots : weights[i] = RatZero
                     /\ total # RatZero =>
                            /\ \A i \in 1..JointSlots : RatMul(weights[i], total) = raw[i]
                            /\ RatSum(weights) = RatOne
                     /\ (hasArmature /\ Len(sourceVertex(corners[k]).groups) = 0) =>
                            \A i \in 1..JointSlots :
                                weights[i] = RatZero /\ vertex.jointIndices[i] = 0
        /\ LET data == baked
           IN \A k \in 1..Len(data.vertices) :
                  RatSum(data.vertices[k].jointWeights) \in {RatZero, RatOne}

\* A mesh is baked with an armature; one corner's vertex is in more than JointSlots
\* groups whose first weights sum to neither 0 nor 1, another corner's vertex is in no
\* group.
C5_Witness ==
    /\ pc = "mesh_write"
    /\ hasArmature
    /\ LET corners == cornerList
       IN /\ \E k \in 1..Len(corners) :
                 /\ Len(sourceVertex(corners[k]).groups) > JointSlots
                 /\ RatSum(rawWeights(corners[k])) \notin {RatZero, RatOne}
          /\ \E k \in 1..Len(corners) : Len(sourceVertex(corners[k]).groups) = 0

\* C6: each written animation has frameCount = endFrame - startFrame + 1 and, after its
\* name, frameCount x boneCount pose records of ten floats, frame by frame and within a
\* frame bone by bone in the order of the bone records.
C6_AnimationLayout ==
    JointsWritten =>
        \A k \in 1..animIdx :
            LET data == file.data
                boneCount == data[1][2]
                at == animationStart(data, boneCount, k)
                startFrame == PyInt(actions[k].frame_range[1])
                endFrame == PyInt(actions[k].frame_range[2])
                count == data[at][2]
                last == at + 2 + 10 * count * boneCount
            IN /\ data[at] = <<"I", endFrame - startFrame + 1>>
               /\ data[at + 2] = <<"s", actions[k].name>>
               /\ IF k = animIdx /\ ~file.raised THEN Len(data) = last ELSE Len(data) > last
               /\ \A r \in 0..(count * boneCount - 1) : \A c \in 1..10 :
                      LET field == data[at + 2 + 10 * r + c]
                      IN /\ field[1] = "f"
                         /\ field[2][2] = k
                         /\ field[2][3] = startFrame + (r \div boneCount)
                         /\ field[2][4] = data[jointStart(r % boneCount) + 1][2][2]
                         /\ field[2][5] = PoseChannels[c]

\* A skeleton of at least two bones has been exported with two animations, the first of
\* at least two frames.
C6_Witness ==
    /\ JointsWritten
    /\ result = "FINISHED"
    /\ animIdx = 2
    /\ file.data[1][2] >= 2
    /\ file.data[animationStart(file.data, file.data[1][2], 1)][2] >= 2

\* C7: a mesh exported with an armature, where one of the first four vertex groups of a
\* corner's vertex is named after no bone, is exported to the end with every joint
\* index in 0..255.
C7_UnmatchedGroupFallsBack ==
    (/\ op = "mesh"
     /\ pc = "idle"
     /\ file.opened
     /\ hasArmature
     /\ HasUnmatchedGroup)
    => /\ result = "FINISHED"
       /\ \A k \in 1..Len(file.data) :
              file.data[k][1] = "B" => file.data[k][2] \in 0..Uint8Max

\* C8: when the mesh operator reports success, a mesh file has been written.
C8_SuccessMeansFileWritten ==
    (op = "mesh" /\ pc = "idle" /\ result = "FINISHED") => MeshFileComplete

\* C9: the parentIndex of each bone record is the position of the bone's parent in the
\* bone list, below the bone count, or 0 for a bone without parent; a root and a child
\* of bone 0 have the same parentIndex.
C9_ParentIndex ==
    JointsWritten =>
        LET data == file.data
            bones == bonesOf(armature)
            boneCount == data[1][2]
            written(b) == data[jointStart(b)]
            position(name) == CHOOSE j \in 0..(boneCount - 1) : bones[j + 1].name = name
        IN /\ boneCount = Len(bones)
           /\ \A b \in 0..(boneCount - 1) :
                  /\ written(b)[1] = "B"
                  /\ IF bones[b + 1].parent = 0
                     THEN written(b)[2] = 0
                     ELSE /\ written(b)[2] = position(bones[b + 1].parent)
                          /\ written(b)[2] < boneCount
           /\ \A a, c \in 0..(boneCount - 1) :
                  (bones[a + 1].parent = 0 /\ bones[c + 1].parent = bones[1].name)
                  => written(a)[2] = written(c)[2]

\* The bone records of a chain of three bones have been written: the root, its child
\* with parentIndex 0 and the grandchild with parentIndex 1.
C9_Witness ==
    /\ JointsWritten
    /\ Len(bonesOf(armature)) = 3
    /\ file.data[jointStart(0)][2] = 0
    /\ file.data[jointStart(1)][2] = 0
    /\ file.data[jointStart(2)][2] = 1

\* C10: with an armature, the mesh operator reads the mesh data only under REST and the
\* skeleton operator samples poses only under POSE; the mode is switched before the
\* first read and stays until the operator's restoring step, after the last read.
C10_ReadsUnderSwitchedMode ==
    /\ (op = "mesh" /\ hasArmature) =>
           /\ readModes \subseteq {"REST"}
           /\ pc \in {"mesh_objects", "mesh_open", "mesh_write", "mesh_restore"}
                  => pose_position = "REST"
    /\ op = "skeleton" =>
           /\ readModes \subseteq {"POSE"}
           /\ pc \in {"skel_open", "skel_joints", "skel_actions"} => pose_position = "POSE"
    /\ (pc = "idle" /\ result = "FINISHED" /\ hasArmature) =>
           pose_position = entry.pose_position

\* A skeleton export entered under REST has sampled poses under POSE and has switched
\* back to REST.
C10_Witness ==
    /\ op = "skeleton"
    /\ result = "FINISHED"
    /\ pc = "idle"
    /\ readModes = {"POSE"}
    /\ entry.pose_position = "REST"
    /\ pose_position = "REST"

====
